---- MODULE Spec2Model ----
(***************************************************************************)
(* Model of the QA RAG service: the session registry rag_agents of         *)
(* main.py, the RAGAgent of agent.py (conversation memory, tool loop,      *)
(* document ingestion) and the VectorStore of vector_store.py (in-memory   *)
(* index, retriever, on-disk index).                                       *)
(*                                                                         *)
(* Every HTTP handler of main.py is one action.  The external              *)
(* collaborators (LLM, PDF loader, FAISS, file system) are inputs chosen   *)
(* with \E: which tool the LLM names in each round, whether it raises, at  *)
(* which step an ingestion fails.                                          *)
(***************************************************************************)
EXTENDS Integers, Sequences, FiniteSets, TLC

VARIABLES
    rag_agents,   \* main.py:23      session id -> RAGAgent
    disk,         \* config.py:19    the index directory VECTORSTORE_PATH
    documents,    \* config.py:20    file names saved under DOCUMENTS_PATH
    exported,     \* a caller's copy of a get_memory_summary() result
    last,         \* the request handled last and its response
    loop          \* the event loop: the requests in flight and the one it runs

vars == <<rag_agents, disk, documents, exported, last, loop>>

-----------------------------------------------------------------------------
(* Bounds of the model *)

MaxExchanges == 2       \* completed queries held by all sessions together
MaxRounds == 1          \* tool rounds the LLM takes in one query
MemMaxExchanges == 21   \* completed queries of the session of SpecMemory
MaxTasks == 2           \* requests in flight at once in SpecConcurrent

(* Inputs *)

None == "None"
DefaultSession == "default"
SessionIds == {DefaultSession, "s1", "s2"}
Questions == {1, 2}
ToolNames == {"VectorStoreSearch", "WebSearch"}

\* file names are sequences of characters, so that endswith is computed
PdfSuffix == <<".", "p", "d", "f">>
Files ==
    { [filename |-> <<"a", ".", "p", "d", "f">>, doc |-> "A"],
      [filename |-> <<"b", ".", "p", "d", "f">>, doc |-> "B"],
      [filename |-> <<"a", ".", "t", "x", "t">>, doc |-> "A"] }

-----------------------------------------------------------------------------
(* Program constants *)

WindowK == 20           \* k of ConversationBufferWindowMemory
HistoryWindow == 10     \* messages[-10:] of _format_chat_history

-----------------------------------------------------------------------------
(* Sequences *)

\* s[-n:] of Python, n > 0
LastN(s, n) ==
    IF Len(s) <= n THEN s ELSE SubSeq(s, Len(s) - n + 1, Len(s))

\* name.endswith(suffix)
EndsWith(name, suffix) ==
    /\ Len(name) >= Len(suffix)
    /\ SubSeq(name, Len(name) - Len(suffix) + 1, Len(name)) = suffix

-----------------------------------------------------------------------------
(* vector_store.py *)

\* VectorStore.vectorstore / .retriever before anything is attached, and a
\* VECTORSTORE_PATH that does not exist
NoIndex == [kind |-> "none", chunks |-> {}]
NoRetriever == [kind |-> "none", chunks |-> {}]
\* an index directory that a failed save_local left half written
PartialIndex == [kind |-> "partial", chunks |-> {}]

\* VectorStore.load_documents: the chunks the splitter makes of a PDF
SplitDocuments(doc) == { <<doc, 1>>, <<doc, 2>> }

\* FAISS.from_documents: an index holding exactly the given chunks
FromDocuments(chunks) == [kind |-> "faiss", chunks |-> chunks]

AsRetriever(vs) == [kind |-> "retriever", chunks |-> vs.chunks]

\* os.path.exists(config.VECTORSTORE_PATH)
PathExists(d) == d.kind # "none"

\* a create_vectorstore that adds the documents to the index it has
CreateVectorstore_Extends(agent, chunks) ==
    [agent EXCEPT
        !.vectorstore = FromDocuments(agent.vectorstore.chunks \cup chunks),
        !.retriever =
            AsRetriever(FromDocuments(agent.vectorstore.chunks \cup chunks))]

\* VectorStore.create_vectorstore
CreateVectorstore(agent, chunks) ==
    [agent EXCEPT !.vectorstore = FromDocuments(chunks),
                  !.retriever = AsRetriever(FromDocuments(chunks))]

\* VectorStore.load_vectorstore: FAISS.load_local raises on a missing or
\* half written directory, the exception is swallowed and nothing is assigned
LoadVectorstore(agent, d) ==
    IF d.kind = "faiss"
    THEN [agent EXCEPT !.vectorstore = d, !.retriever = AsRetriever(d)]
    ELSE agent

-----------------------------------------------------------------------------
(* agent.py: memory *)

HumanMessage(c) == [type |-> "human", content |-> c]
AIMessage(c) == [type |-> "ai", content |-> c]

IsChatMessage(m) == m.type \in {"human", "ai"}
SummaryEntry(m) ==
    [role |-> IF m.type = "human" THEN "user" ELSE "assistant",
     content |-> m.content]

\* RAGAgent.get_memory_summary
GetMemorySummary(agent) ==
    LET kept == SelectSeq(agent.messages, IsChatMessage)
    IN  [i \in 1 .. Len(kept) |-> SummaryEntry(kept[i])]

\* RAGAgent.clear_memory
ClearMemory(agent) == [agent EXCEPT !.messages = <<>>]

IsLoadable(e) == e.role \in {"user", "assistant"}
LoadedMessage(e) ==
    IF e.role = "user" THEN HumanMessage(e.content) ELSE AIMessage(e.content)

\* RAGAgent.load_memory_from_messages
LoadMemoryFromMessages(agent, entries) ==
    LET kept == SelectSeq(entries, IsLoadable)
    IN  [agent EXCEPT
            !.messages = [i \in 1 .. Len(kept) |-> LoadedMessage(kept[i])]]

\* BaseChatMemory.save_context, run by the executor after a completed run:
\* the question and the output are appended, nothing is removed
SaveContext(agent, question, output) ==
    [agent EXCEPT !.messages =
        @ \o <<HumanMessage(question), AIMessage(output)>>]

HistoryLine(m) ==
    <<IF m.type = "human" THEN "Human" ELSE "Assistant", m.content>>

\* RAGAgent._format_chat_history; <<>> stands for "No previous conversation."
FormatChatHistory(agent) ==
    LET kept == SelectSeq(LastN(agent.messages, HistoryWindow), IsChatMessage)
    IN  [i \in 1 .. Len(kept) |-> HistoryLine(kept[i])]

-----------------------------------------------------------------------------
(* agent.py: construction, query, ingestion *)

\* RAGAgent.__init__; addr is the identity of the object
NewAgent(addr) ==
    [addr |-> addr, messages |-> <<>>,
     vectorstore |-> NoIndex, retriever |-> NoRetriever]

\* RAGAgent.load_existing_vectorstore
LoadExistingVectorstore(agent, d) == LoadVectorstore(agent, d)

QuestionText(q) == <<"Q", q>>
FinalAnswer(q) == <<"A", q>>
\* f"Agent error: {str(e)}"
AgentError == <<"Agent error", "exception">>
IsErrorTagged(answer) == answer[1] = "Agent error"

\* RAGAgent.query: the executor runs the tools the LLM names, in the order it
\* names them; a completed run is saved to memory, a run that raises is not
QueryAnswer(q, raised) == IF raised THEN AgentError ELSE FinalAnswer(q)
QueryAgent(agent, q, raised) ==
    IF raised THEN agent
    ELSE SaveContext(agent, QuestionText(q), FinalAnswer(q))

\* RAGAgent.load_documents, by the step at which it fails ("ok": none);
\* the agent after the call
LoadDocumentsAgent(agent, doc, stage) ==
    IF stage \in {"save", "ok"}
    THEN CreateVectorstore(agent, SplitDocuments(doc))
    ELSE agent

\* RAGAgent.load_documents: the index directory after the call; a save that
\* fails leaves the directory as it was or half written
LoadDocumentsDisk(d, doc, stage, partial) ==
    CASE stage = "ok" -> FromDocuments(SplitDocuments(doc))
      [] stage = "save" -> IF partial THEN PartialIndex ELSE d
      [] OTHER -> d

LoadDocumentsSuccess(stage) == stage = "ok"

-----------------------------------------------------------------------------
(* main.py: the registry *)

Addrs == 1 .. (Cardinality(SessionIds) + 1)

\* the identity of a newly constructed object differs from every live one
FreshAddr(agents) ==
    CHOOSE a \in Addrs :
        /\ \A s \in DOMAIN agents : agents[s].addr # a
        /\ \A b \in Addrs :
              (\A s \in DOMAIN agents : agents[s].addr # b) => a <= b

\* rag_agents[session_id] = agent
Register(agents, sid, agent) ==
    [s \in DOMAIN agents \cup {sid} |-> IF s = sid THEN agent ELSE agents[s]]

\* get_or_create_agent without the membership test of line 34
GetOrCreateAgent_Always(agents, sid, d) ==
    Register(agents, sid,
        IF PathExists(d)
        THEN LoadExistingVectorstore(NewAgent(FreshAddr(agents)), d)
        ELSE NewAgent(FreshAddr(agents)))

\* get_or_create_agent without the load of lines 37-38
GetOrCreateAgent_NoAttach(agents, sid, d) ==
    IF sid \notin DOMAIN agents
    THEN Register(agents, sid, NewAgent(FreshAddr(agents)))
    ELSE agents

\* get_or_create_agent: the registry after the call
GetOrCreateAgent(agents, sid, d) ==
    IF sid \notin DOMAIN agents
    THEN Register(agents, sid,
             IF PathExists(d)
             THEN LoadExistingVectorstore(NewAgent(FreshAddr(agents)), d)
             ELSE NewAgent(FreshAddr(agents)))
    ELSE agents

\* RAGAgent objects constructed by one get_or_create_agent call
Constructed(agents, sid) == IF sid \notin DOMAIN agents THEN 1 ELSE 0

\* str(uuid.uuid4()): an id no live session has
Uuid4(agents) == (SessionIds \ {DefaultSession}) \ DOMAIN agents

\* request.session_id or str(uuid.uuid4())
SessionIdOr(req, agents) == IF req # None THEN {req} ELSE Uuid4(agents)

\* what the model keeps of a request and its response: the handler, the
\* session it worked on, the HTTP status, the RAGAgent objects it constructed
Response(op, sid, status) ==
    [op |-> op, sid |-> sid, status |-> status, constructed |-> 0,
     session_id |-> None, filename |-> <<>>,
     question |-> 0, answer |-> <<>>, tools |-> <<>>, history |-> <<>>, body |-> <<>>]

-----------------------------------------------------------------------------
(* main.py: requests in flight *)

Slots == 1 .. MaxTasks

\* a slot with no request in it
Idle ==
    [pc |-> "idle", op |-> None, sid |-> None, question |-> 0,
     raised |-> FALSE, constructed |-> 0, addr |-> 0, history |-> <<>>]

\* uvicorn.run(app): one event loop, nothing received yet, nothing running
IdleLoop == [running |-> 0, tasks |-> [r \in Slots |-> Idle]]

-----------------------------------------------------------------------------
Init ==
    /\ rag_agents = <<>>
    /\ disk = NoIndex
    /\ documents = {}
    /\ exported = <<>>
    /\ last = Response("startup", None, 200)
    /\ loop = IdleLoop

\* POST /session/create
CreateSession ==
    \E sid \in Uuid4(rag_agents) :
        /\ rag_agents' = GetOrCreateAgent(rag_agents, sid, disk)
        /\ last' = [Response("create", sid, 200) EXCEPT
                        !.constructed = Constructed(rag_agents, sid)]
        /\ UNCHANGED <<disk, documents, exported, loop>>

\* POST /session/clear
ClearSession(req) ==
    \E sid \in SessionIdOr(req, rag_agents) :
        LET agents == GetOrCreateAgent(rag_agents, sid, disk)
        IN  /\ rag_agents' = [agents EXCEPT ![sid] = ClearMemory(@)]
            /\ last' = [Response("clear", sid, 200) EXCEPT
                            !.constructed = Constructed(rag_agents, sid)]
            /\ UNCHANGED <<disk, documents, exported, loop>>

\* a history handler that looks the agent up with get_or_create_agent
GetChatHistory_Creates(sid) ==
    LET agents == GetOrCreateAgent(rag_agents, sid, disk)
    IN  /\ rag_agents' = agents
        /\ last' = [Response("history", sid, 200) EXCEPT
                        !.constructed = Constructed(rag_agents, sid),
                        !.body = GetMemorySummary(agents[sid])]
        /\ UNCHANGED <<disk, documents, exported, loop>>

\* GET /session/{session_id}/history
GetChatHistory(sid) ==
    /\ last' = IF sid \notin DOMAIN rag_agents
               THEN Response("history", sid, 404)
               ELSE [Response("history", sid, 200) EXCEPT
                        !.body = GetMemorySummary(rag_agents[sid])]
    /\ UNCHANGED <<rag_agents, disk, documents, exported, loop>>

\* the tool calls of one run of the executor: the tools the LLM names, round
\* by round, before its final answer or before it raises
ToolRuns == UNION { [1 .. n -> ToolNames] : n \in 0 .. MaxRounds }

RECURSIVE MessageCount(_, _)
\* messages held by the sessions ids
MessageCount(agents, ids) ==
    IF ids = {} THEN 0
    ELSE LET s == CHOOSE x \in ids : TRUE
         IN  Len(agents[s].messages) + MessageCount(agents, ids \ {s})

\* POST /query; cap bounds the exchanges the model lets the sessions hold
QueryDocuments(req, q, tools, raised, cap) ==
    \E sid \in SessionIdOr(req, rag_agents) :
        LET agents == GetOrCreateAgent(rag_agents, sid, disk)
        IN  /\ MessageCount(rag_agents, DOMAIN rag_agents) + 2 <= 2 * cap
            /\ rag_agents' = [agents EXCEPT ![sid] = QueryAgent(@, q, raised)]
            /\ last' = [Response("query", sid, 200) EXCEPT
                            !.constructed = Constructed(rag_agents, sid),
                            !.question = q,
                            !.answer = QueryAnswer(q, raised),
                            !.tools = tools,
                            !.history = FormatChatHistory(agents[sid])]
            /\ UNCHANGED <<disk, documents, exported, loop>>

\* GET /sessions
ListSessions ==
    /\ last' = [Response("sessions", None, 200) EXCEPT
                    !.body = DOMAIN rag_agents]
    /\ UNCHANGED <<rag_agents, disk, documents, exported, loop>>

\* a delete that answers 200 and leaves the entry in place
DelAgent_Keeps(agents, sid) == agents

\* del rag_agents[session_id]
DelAgent(agents, sid) == [s \in DOMAIN agents \ {sid} |-> agents[s]]

\* DELETE /session/{session_id}; body keeps the memory that went with the agent
DeleteSession(sid) ==
    /\ rag_agents' = IF sid \in DOMAIN rag_agents
                     THEN DelAgent(rag_agents, sid)
                     ELSE rag_agents
    /\ last' = IF sid \in DOMAIN rag_agents
               THEN [Response("delete", sid, 200) EXCEPT
                        !.body = GetMemorySummary(rag_agents[sid])]
               ELSE Response("delete", sid, 404)
    /\ UNCHANGED <<disk, documents, exported, loop>>

\* GET /health
HealthCheck ==
    /\ last' = [Response("health", None, 200) EXCEPT
                    !.body = <<Cardinality(DOMAIN rag_agents), PathExists(disk)>>]
    /\ UNCHANGED <<rag_agents, disk, documents, exported, loop>>

\* how an upload can go: the step at which a collaborator raises ("ok": none
\* does) and, for a step that writes, whether it had begun to write
Outcomes ==
    { [stage |-> "copy", partial |-> FALSE], [stage |-> "copy", partial |-> TRUE],
      [stage |-> "load", partial |-> FALSE], [stage |-> "build", partial |-> FALSE],
      [stage |-> "save", partial |-> FALSE], [stage |-> "save", partial |-> TRUE],
      [stage |-> "ok", partial |-> FALSE] }

\* an upload without the reload loop of lines 121-122
ReloadAll_None(agents, d) == agents

\* upload_document, lines 120-122: every registered agent reloads the index
\* directory
ReloadAll(agents, d) ==
    [s \in DOMAIN agents |-> LoadExistingVectorstore(agents[s], d)]

\* an upload handler without the check of line 98
IsPdfUpload_NoCheck(file) == TRUE

\* file.filename.endswith('.pdf')
IsPdfUpload(file) == EndsWith(file.filename, PdfSuffix)

\* POST /upload
UploadDocument(file, req, outcome) ==
    LET stage == outcome.stage
        partial == outcome.partial
    IN
    IF ~IsPdfUpload(file)
    THEN /\ last' = [Response("upload", None, 400) EXCEPT
                        !.session_id = req, !.filename = file.filename]
         /\ UNCHANGED <<rag_agents, disk, documents, exported, loop>>
    ELSE IF stage = "copy"
    THEN \* open() or copyfileobj raised: the file may have been created
         /\ documents' = IF partial THEN documents \cup {file.filename}
                         ELSE documents
         /\ last' = [Response("upload", None, 500) EXCEPT
                        !.session_id = req, !.filename = file.filename]
         /\ UNCHANGED <<rag_agents, disk, exported, loop>>
    ELSE LET sid == IF req # None THEN req ELSE DefaultSession
             agents == GetOrCreateAgent(rag_agents, sid, disk)
             loaded == [agents EXCEPT
                           ![sid] = LoadDocumentsAgent(@, file.doc, stage)]
             d == LoadDocumentsDisk(disk, file.doc, stage, partial)
         IN  /\ documents' = documents \cup {file.filename}
             /\ disk' = d
             /\ rag_agents' = IF req # None THEN loaded
                             ELSE ReloadAll(loaded, d)
             /\ last' = [Response("upload", sid,
                            IF LoadDocumentsSuccess(stage) THEN 200 ELSE 500)
                         EXCEPT !.constructed = Constructed(rag_agents, sid),
                                !.session_id = req,
                                !.filename = file.filename]
             /\ UNCHANGED <<exported, loop>>

-----------------------------------------------------------------------------
(* agent.py: the memory API of one RAGAgent, called directly *)

MemSession == "s1"

\* exported = agent.get_memory_summary()
ExportMemory(sid) ==
    /\ sid \in DOMAIN rag_agents
    /\ exported' = GetMemorySummary(rag_agents[sid])
    /\ last' = Response("export", sid, 200)
    /\ UNCHANGED <<rag_agents, disk, documents, loop>>

\* agent.load_memory_from_messages(exported)
LoadMemory(sid) ==
    /\ sid \in DOMAIN rag_agents
    /\ rag_agents' = [rag_agents EXCEPT
                         ![sid] = LoadMemoryFromMessages(@, exported)]
    /\ last' = Response("load", sid, 200)
    /\ UNCHANGED <<disk, documents, exported, loop>>

\* the n-th question put to a session since its memory was last empty
NextQuestion(sid) ==
    IF sid \in DOMAIN rag_agents
    THEN Len(rag_agents[sid].messages) \div 2 + 1
    ELSE 1

-----------------------------------------------------------------------------
(* The service with no document uploaded: sessions and their memories *)

Requests == SessionIds \cup {None}

SessionsNext ==
    \/ CreateSession
    \/ \E req \in Requests : ClearSession(req)
    \/ \E sid \in SessionIds : GetChatHistory(sid)
    \/ \E req \in Requests, q \in Questions, tools \in ToolRuns,
          raised \in BOOLEAN :
          QueryDocuments(req, q, tools, raised, MaxExchanges)
    \/ ListSessions
    \/ \E sid \in SessionIds : DeleteSession(sid)

SpecSessions == Init /\ [][SessionsNext]_vars

(* The service under uploads: sessions and their indexes *)

IngestNext ==
    \/ CreateSession
    \/ \E sid \in SessionIds : DeleteSession(sid)
    \/ HealthCheck
    \/ \E file \in Files, req \in Requests, outcome \in Outcomes :
          UploadDocument(file, req, outcome)

SpecIngest == Init /\ [][IngestNext]_vars

(* One session's memory, through many exchanges *)

MemoryNext ==
    \/ \E raised \in BOOLEAN :
          QueryDocuments(MemSession, NextQuestion(MemSession), <<>>, raised,
                         MemMaxExchanges)
    \/ ClearSession(MemSession)
    \/ ExportMemory(MemSession)
    \/ LoadMemory(MemSession)

SpecMemory == Init /\ [][MemoryNext]_vars

(* Requests in flight together.  Every handler of main.py is an `async def`
   that awaits nothing, and uvicorn.run(app) serves them on one event loop:
   a handler the loop has started runs to its return before the loop starts
   another.  The handlers are cut at their statements, so that it is the
   scheduling, and not the size of an action, that keeps them apart.        *)

ConcSessions == {"s1"}
ConcOps == {"query", "clear", "history", "delete"}

\* handlers declared `def`: FastAPI runs those on a thread pool, any started
\* handler may take the next step
CanRun_Threaded(r) == TRUE

\* the event loop thread takes a step of request r: it is idle, or r is the
\* coroutine it is running
CanRun(r) == loop.running \in {0, r}

\* request r goes on as t, without awaiting
Continue(r, t) == [running |-> r, tasks |-> [loop.tasks EXCEPT ![r] = t]]

\* request r has returned its response
Return(r) == [running |-> 0, tasks |-> [loop.tasks EXCEPT ![r] = Idle]]

\* queries received and not yet answered
PendingQueries == { r \in Slots : loop.tasks[r].op = "query" }

\* the agent request r holds is the one registered under its session id
Holds(r) ==
    /\ loop.tasks[r].sid \in DOMAIN rag_agents
    /\ rag_agents[loop.tasks[r].sid].addr = loop.tasks[r].addr

\* a request arrives and waits for the event loop
Receive(r, op, sid, q, raised) ==
    /\ loop.tasks[r].pc = "idle"
    /\ \A t \in Slots : t < r => loop.tasks[t].pc # "idle"
    /\ op = "query" =>
          MessageCount(rag_agents, DOMAIN rag_agents)
              + 2 * Cardinality(PendingQueries) + 2 <= 2 * MaxExchanges
    /\ loop' = [loop EXCEPT !.tasks[r] =
                   [Idle EXCEPT !.pc = "pending", !.op = op, !.sid = sid,
                                !.question = IF op = "query" THEN q ELSE 0,
                                !.raised = (op = "query" /\ raised)]]
    /\ UNCHANGED <<rag_agents, disk, documents, exported, last>>

\* the handler starts: get_chat_history and delete_session whole,
\* query_documents and clear_session up to the test of get_or_create_agent
Start(r) ==
    LET t == loop.tasks[r]
    IN  /\ t.pc = "pending"
        /\ CanRun(r)
        /\ CASE t.op = "history" ->
                  /\ last' = IF t.sid \notin DOMAIN rag_agents
                             THEN Response("history", t.sid, 404)
                             ELSE [Response("history", t.sid, 200) EXCEPT
                                      !.body = GetMemorySummary(rag_agents[t.sid])]
                  /\ loop' = Return(r)
                  /\ UNCHANGED rag_agents
             [] t.op = "delete" ->
                  /\ rag_agents' = IF t.sid \in DOMAIN rag_agents
                                   THEN DelAgent(rag_agents, t.sid)
                                   ELSE rag_agents
                  /\ last' = IF t.sid \in DOMAIN rag_agents
                             THEN [Response("delete", t.sid, 200) EXCEPT
                                      !.body = GetMemorySummary(rag_agents[t.sid])]
                             ELSE Response("delete", t.sid, 404)
                  /\ loop' = Return(r)
             [] OTHER ->
                  /\ loop' = Continue(r, [t EXCEPT !.pc =
                                 IF t.sid \notin DOMAIN rag_agents
                                 THEN "construct" ELSE "agent"])
                  /\ UNCHANGED <<rag_agents, last>>
        /\ UNCHANGED <<disk, documents, exported>>

\* get_or_create_agent, line 35: rag_agents[session_id] = RAGAgent(...)
Construct(r) ==
    LET t == loop.tasks[r]
    IN  /\ t.pc = "construct"
        /\ CanRun(r)
        /\ rag_agents' = Register(rag_agents, t.sid,
                                  NewAgent(FreshAddr(rag_agents)))
        /\ loop' = Continue(r, [t EXCEPT !.pc = "attach", !.constructed = 1])
        /\ UNCHANGED <<disk, documents, exported, last>>

\* a handler that raised: 500
Failed(r) == Response(loop.tasks[r].op, loop.tasks[r].sid, 500)

\* get_or_create_agent, lines 37-38: the new agent loads the index directory
Attach(r) ==
    LET t == loop.tasks[r]
    IN  /\ t.pc = "attach"
        /\ CanRun(r)
        /\ IF PathExists(disk) /\ t.sid \notin DOMAIN rag_agents
           THEN \* KeyError
                /\ last' = Failed(r)
                /\ loop' = Return(r)
                /\ UNCHANGED rag_agents
           ELSE /\ rag_agents' =
                      IF PathExists(disk)
                      THEN [rag_agents EXCEPT
                               ![t.sid] = LoadExistingVectorstore(@, disk)]
                      ELSE rag_agents
                /\ loop' = Continue(r, [t EXCEPT !.pc = "agent"])
                /\ UNCHANGED last
        /\ UNCHANGED <<disk, documents, exported>>

\* get_or_create_agent, line 40: return rag_agents[session_id]
Obtain(r) ==
    LET t == loop.tasks[r]
    IN  /\ t.pc = "agent"
        /\ CanRun(r)
        /\ IF t.sid \notin DOMAIN rag_agents
           THEN \* KeyError
                /\ last' = Failed(r)
                /\ loop' = Return(r)
           ELSE /\ loop' = Continue(r,
                       [t EXCEPT !.addr = rag_agents[t.sid].addr,
                                 !.pc = IF t.op = "query" THEN "invoke"
                                        ELSE "clear_memory"])
                /\ UNCHANGED last
        /\ UNCHANGED <<rag_agents, disk, documents, exported>>

\* RAGAgent.query, line 167: the executor runs; a run that raises is answered
\* with the error string, a completed run goes on to save its context
Invoke(r) ==
    LET t == loop.tasks[r]
        seen == IF Holds(r) THEN FormatChatHistory(rag_agents[t.sid]) ELSE <<>>
    IN  /\ t.pc = "invoke"
        /\ CanRun(r)
        /\ IF t.raised
           THEN /\ last' = [Response("query", t.sid, 200) EXCEPT
                               !.constructed = t.constructed,
                               !.question = t.question,
                               !.answer = AgentError,
                               !.history = seen]
                /\ loop' = Return(r)
           ELSE /\ loop' = Continue(r, [t EXCEPT !.pc = "add_user",
                                                 !.history = seen])
                /\ UNCHANGED last
        /\ UNCHANGED <<rag_agents, disk, documents, exported>>

\* save_context, first message: chat_memory.add_user_message(question)
AddUserMessage(r) ==
    LET t == loop.tasks[r]
    IN  /\ t.pc = "add_user"
        /\ CanRun(r)
        /\ rag_agents' =
              IF Holds(r)
              THEN [rag_agents EXCEPT ![t.sid].messages =
                       Append(@, HumanMessage(QuestionText(t.question)))]
              ELSE rag_agents
        /\ loop' = Continue(r, [t EXCEPT !.pc = "add_ai"])
        /\ UNCHANGED <<disk, documents, exported, last>>

\* save_context, second message: chat_memory.add_ai_message(output); then
\* query_documents returns the answer
AddAIMessage(r) ==
    LET t == loop.tasks[r]
    IN  /\ t.pc = "add_ai"
        /\ CanRun(r)
        /\ rag_agents' =
              IF Holds(r)
              THEN [rag_agents EXCEPT ![t.sid].messages =
                       Append(@, AIMessage(FinalAnswer(t.question)))]
              ELSE rag_agents
        /\ last' = [Response("query", t.sid, 200) EXCEPT
                       !.constructed = t.constructed,
                       !.question = t.question,
                       !.answer = FinalAnswer(t.question),
                       !.history = t.history]
        /\ loop' = Return(r)
        /\ UNCHANGED <<disk, documents, exported>>

\* clear_session, line 79: agent.clear_memory(); then it returns
ClearAgentMemory(r) ==
    LET t == loop.tasks[r]
    IN  /\ t.pc = "clear_memory"
        /\ CanRun(r)
        /\ rag_agents' =
              IF Holds(r)
              THEN [rag_agents EXCEPT ![t.sid] = ClearMemory(@)]
              ELSE rag_agents
        /\ last' = [Response("clear", t.sid, 200) EXCEPT
                       !.constructed = t.constructed]
        /\ loop' = Return(r)
        /\ UNCHANGED <<disk, documents, exported>>

\* the process starts with or without an index directory of an earlier run
ConcInit ==
    /\ rag_agents = <<>>
    /\ disk \in {NoIndex, FromDocuments(SplitDocuments("A"))}
    /\ documents = {}
    /\ exported = <<>>
    /\ last = Response("startup", None, 200)
    /\ loop = IdleLoop

ConcNext ==
    \/ \E r \in Slots, op \in ConcOps, sid \in ConcSessions, q \in Questions,
          raised \in BOOLEAN : Receive(r, op, sid, q, raised)
    \/ \E r \in Slots : Start(r)
    \/ \E r \in Slots : Construct(r)
    \/ \E r \in Slots : Attach(r)
    \/ \E r \in Slots : Obtain(r)
    \/ \E r \in Slots : Invoke(r)
    \/ \E r \in Slots : AddUserMessage(r)
    \/ \E r \in Slots : AddAIMessage(r)
    \/ \E r \in Slots : ClearAgentMemory(r)

SpecConcurrent == ConcInit /\ [][ConcNext]_vars

(* The service: every request, in any order *)

Next == SessionsNext \/ IngestNext

Spec == Init /\ [][Next]_vars

-----------------------------------------------------------------------------
(* Properties *)

Live == DOMAIN rag_agents
Summary(s) == GetMemorySummary(rag_agents[s])
UserEntry(q) == [role |-> "user", content |-> QuestionText(q)]
AssistantEntry(q) == [role |-> "assistant", content |-> FinalAnswer(q)]

\* C1 (SpecMemory): the message log get_memory_summary exposes never holds
\* more than 2*W messages, W the configured window, and after every completed
\* query it is the previous log followed by the question and the answer, cut
\* to its most recent 2*W messages (oldest evicted first).
C1_LogWithinWindow ==
    \A s \in Live : Len(Summary(s)) <= 2 * WindowK
C1_AppendEvictsOldest ==
    (last'.op = "query" /\ ~IsErrorTagged(last'.answer)) =>
        GetMemorySummary(rag_agents'[last'.sid]) =
            LastN((IF last'.sid \in Live THEN Summary(last'.sid) ELSE <<>>)
                      \o <<UserEntry(last'.question),
                           AssistantEntry(last'.question)>>,
                  2 * WindowK)
C1_WindowedLog == []C1_LogWithinWindow /\ [][C1_AppendEvictsOldest]_vars

\* C2 (SpecMemory): exported = get_memory_summary(), clear_memory(), then
\* load_memory_from_messages(exported) leaves a log whose summary is exported,
\* cut to its most recent 2*W entries when exported is longer than 2*W; a
\* second load of exported leaves the same log.
C2_LoadAfterClear ==
    (last.op = "clear" /\ last'.op = "load") =>
        GetMemorySummary(rag_agents'[last'.sid]) = LastN(exported, 2 * WindowK)
C2_LoadTwice ==
    (last.op = "load" /\ last'.op = "load" /\ last'.sid = last.sid) =>
        GetMemorySummary(rag_agents'[last'.sid]) = Summary(last.sid)
C2_RoundTrip == [][C2_LoadAfterClear /\ C2_LoadTwice]_vars

\* C3 (SpecSessions): get_or_create_agent for an id that is registered
\* returns the registered Agent object and constructs nothing; two registered
\* ids never share an Agent; a query, clear or history request on one session
\* leaves the message log of every other session as it was.
C3_Step ==
    /\ \A s \in Live \cap DOMAIN rag_agents' :
          /\ rag_agents'[s].addr = rag_agents[s].addr
          /\ last'.sid = s => last'.constructed = 0
    /\ \A s, t \in DOMAIN rag_agents' :
          s # t => rag_agents'[s].addr # rag_agents'[t].addr
    /\ last'.op \in {"query", "clear", "history"} =>
          \A t \in (Live \cap DOMAIN rag_agents') \ {last'.sid} :
              rag_agents'[t].messages = rag_agents[t].messages
C3_OneAgentPerSession == [][C3_Step]_vars
C3_Witness ==
    /\ last.op = "query"
    /\ last.constructed = 0
    /\ rag_agents[last.sid].messages # <<>>
    /\ \E t \in Live \ {last.sid} : rag_agents[t].messages # <<>>

\* C4 (SpecSessions): a DELETE that answers 200 leaves the id out of the
\* registry, and a request that brings an unregistered id (so also a deleted
\* one) into the registry constructs a new Agent whose memory is empty when
\* the request starts: a query sees no previous conversation and leaves at
\* most its own exchange in the log.
C4_Step ==
    /\ (last'.op = "delete" /\ last'.status = 200) =>
          last'.sid \notin DOMAIN rag_agents'
    /\ \A s \in DOMAIN rag_agents' \ Live :
          /\ last'.sid = s
          /\ last'.constructed = 1
          /\ IF last'.op = "query"
             THEN /\ last'.history = <<>>
                  /\ GetMemorySummary(rag_agents'[s]) \in
                        { <<>>, <<UserEntry(last'.question),
                                  AssistantEntry(last'.question)>> }
             ELSE rag_agents'[s].messages = <<>>
C4_DeleteForgets == [][C4_Step]_vars
C4_Witness ==
    /\ last.op = "delete"
    /\ last.status = 200
    /\ last.body # <<>>
    /\ last.sid \notin Live

\* C5 (SpecSessions): a query whose agent run raises returns an error-tagged
\* string, and the question of that query is in the session's history
\* afterwards.
C5_FailedQuestionRecorded ==
    (last.op = "query" /\ IsErrorTagged(last.answer)) =>
        /\ last.status = 200
        /\ \E i \in 1 .. Len(Summary(last.sid)) :
              Summary(last.sid)[i] = UserEntry(last.question)

\* C6 (SpecIngest): an upload whose file name does not end in .pdf is
\* answered 400 and changes nothing: no session is created, no agent's index
\* changes, the index directory and the documents directory are as before.
C6_Step ==
    (last'.op = "upload" /\ ~EndsWith(last'.filename, PdfSuffix)) =>
        /\ last'.status = 400
        /\ UNCHANGED <<rag_agents, disk, documents>>
C6_NonPdfRejected == [][C6_Step]_vars
C6_Witness ==
    /\ last.op = "upload"
    /\ last.status = 400
    /\ last.session_id \in SessionIds \ Live
    /\ Live # {}
    /\ disk.kind = "faiss"

\* C7 (SpecSessions): within one query WebSearch is never invoked before
\* VectorStoreSearch has been invoked in that query.
C7_DocumentSearchFirst ==
    last.op = "query" =>
        \A i \in 1 .. Len(last.tools) :
            last.tools[i] = "WebSearch" =>
                \E j \in 1 .. (i - 1) : last.tools[j] = "VectorStoreSearch"

\* C8 (SpecIngest): an upload that reports failure leaves the registry, every
\* agent's vectorstore and retriever, and the index directory as they were.
C8_Step ==
    (last'.op = "upload" /\ last'.status = 500) =>
        UNCHANGED <<rag_agents, disk>>
C8_FailedUploadChangesNothing == [][C8_Step]_vars

\* C9 (SpecSessions): a history or delete request for an id that is not
\* registered is answered 404 and leaves the registry as it was.
C9_Step ==
    (last'.op \in {"history", "delete"} /\ last'.sid \notin Live) =>
        /\ last'.status = 404
        /\ rag_agents' = rag_agents
C9_UnknownSession404 == [][C9_Step]_vars
C9_Witness ==
    /\ last.op = "history"
    /\ last.status = 404
    /\ \E t \in Live : rag_agents[t].messages # <<>>

\* C10 (SpecIngest): after a successful upload that names no session the
\* index directory holds the index of the uploaded file and every registered
\* agent has that index attached, vectorstore and retriever.
C10_AllSessionsReattached ==
    (last.op = "upload" /\ last.status = 200 /\ last.session_id = None) =>
        /\ \E f \in Files :
              /\ f.filename = last.filename
              /\ disk = FromDocuments(SplitDocuments(f.doc))
        /\ \A s \in Live :
              /\ rag_agents[s].vectorstore = disk
              /\ rag_agents[s].retriever = AsRetriever(disk)
C10_Witness ==
    /\ last.op = "upload"
    /\ last.status = 200
    /\ last.session_id = None
    /\ Live = SessionIds

\* a started handler that changes its session and has not returned
Mutating(s) ==
    { r \in Slots :
        /\ loop.tasks[r].sid = s
        /\ loop.tasks[r].pc \notin {"idle", "pending"} }

\* a log of whole exchanges: each question directly followed by its answer
WholeExchanges(log) ==
    /\ Len(log) % 2 = 0
    /\ \A i \in 1 .. Len(log) :
          i % 2 = 1 =>
              \E q \in Questions :
                  /\ log[i] = UserEntry(q)
                  /\ log[i + 1] = AssistantEntry(q)

\* C11 (SpecConcurrent): with query, clear, history and delete requests on one
\* session id in flight together, at most one handler that changes the
\* session is between its start and its return, and whenever none is in the
\* middle of saving an exchange the session's message log is a sequence of
\* whole exchanges, each question directly followed by the answer to it.
C11_OneMutationInFlight ==
    \A s \in ConcSessions :
        /\ Cardinality(Mutating(s)) <= 1
        /\ (s \in Live /\ \A r \in Slots : loop.tasks[r].pc # "add_ai") =>
              WholeExchanges(Summary(s))
C11_Witness ==
    \E r, t \in Slots :
        /\ loop.tasks[r].op = "query"
        /\ loop.tasks[r].pc = "add_ai"
        /\ loop.tasks[t].op = "query"
        /\ loop.tasks[t].pc = "pending"
        /\ loop.tasks[t].sid = loop.tasks[r].sid
        /\ loop.tasks[t].question # loop.tasks[r].question
        /\ Len(rag_agents[loop.tasks[r].sid].messages) = 1

\* the agent registered for s is constructed and its attach of the existing
\* index directory has not been attempted yet
HalfConstructed(s) ==
    /\ PathExists(disk)
    /\ s \in Live
    /\ \E t \in Slots : loop.tasks[t].sid = s /\ loop.tasks[t].pc = "attach"

\* C12 (SpecConcurrent): with several get_or_create_agent calls for one
\* unregistered id in flight, an agent is constructed for the id only while
\* the id is unregistered, a registered agent is never replaced by another,
\* and no caller is returned an agent whose attach of the existing index
\* directory is still to be attempted.
C12_Step ==
    /\ \A r \in Slots :
          (loop.tasks[r].pc = "construct" /\ loop'.tasks[r].pc = "attach") =>
              loop.tasks[r].sid \notin Live
    /\ \A s \in Live \cap DOMAIN rag_agents' :
          rag_agents'[s].addr = rag_agents[s].addr
    /\ \A r \in Slots :
          (loop.tasks[r].pc = "agent"
              /\ loop'.tasks[r].pc \in {"invoke", "clear_memory"}) =>
              ~HalfConstructed(loop.tasks[r].sid)
C12_AtomicConstruction == [][C12_Step]_vars
C12_Witness ==
    \E r, t \in Slots :
        /\ loop.tasks[r].pc = "attach"
        /\ loop.tasks[t].pc = "pending"
        /\ loop.tasks[t].op \in {"query", "clear"}
        /\ loop.tasks[t].sid = loop.tasks[r].sid
        /\ HalfConstructed(loop.tasks[r].sid)

\* the index FAISS.from_documents builds of an uploaded file, by its name
IndexOfUpload(filename) ==
    { FromDocuments(SplitDocuments(f.doc)) : f \in {g \in Files : g.filename = filename} }

\* C13 (SpecIngest): a successful ingestion replaces the index: after it the
\* agent it went into and the index directory hold exactly the chunks of the
\* file just ingested, whatever was indexed before.
C13_IngestionReplaces ==
    (last.op = "upload" /\ last.status = 200) =>
        /\ rag_agents[last.sid].vectorstore \in IndexOfUpload(last.filename)
        /\ rag_agents[last.sid].retriever =
              AsRetriever(rag_agents[last.sid].vectorstore)
        /\ disk \in IndexOfUpload(last.filename)
C13_Witness ==
    /\ last.op = "upload"
    /\ last.status = 200
    /\ last.session_id = "s1"
    /\ last.constructed = 0
    /\ last.filename = <<"b", ".", "p", "d", "f">>
    /\ <<"a", ".", "p", "d", "f">> \in documents
    /\ \E t \in Live : rag_agents[t].vectorstore = FromDocuments(SplitDocuments("A"))

\* C14 (SpecIngest): a successful upload that names session S registers S if
\* need be and otherwise leaves every other registered agent, its index
\* included, as it was; a session created while the index directory holds a
\* loadable index attaches that index, so the session created next after S's
\* upload attaches the index S's upload wrote.
C14_Step ==
    /\ (last'.op = "upload" /\ last'.status = 200 /\ last'.session_id # None) =>
          /\ DOMAIN rag_agents' = Live \cup {last'.sid}
          /\ \A t \in Live \ {last'.sid} : rag_agents'[t] = rag_agents[t]
    /\ last'.op = "create" =>
          /\ rag_agents'[last'.sid].vectorstore =
                IF disk.kind = "faiss" THEN disk ELSE NoIndex
          /\ (last.op = "upload" /\ last.status = 200) =>
                rag_agents'[last'.sid].vectorstore \in IndexOfUpload(last.filename)
====
